---- MODULE Spec2Model ----
(***************************************************************************)
(* A model of the aggregation / normalization core of recap:               *)
(*   - normalize_daily_hours      (src/src/tempo_sync/cli.py)              *)
(*   - WeeklyWorklog aggregation  (src/src/worklog_helper/worklog_helper.py)*)
(*   - ClaudeSessionParser        (src/src/worklog_helper/worklog_helper.py)*)
(*   - GitSessionParser.add_repo  (commit-based extractor)                 *)
(*   - TeamReportGenerator        (src/src/recap/team.py)                  *)
(*   - batch_get_issue_types      (src/src/recap/tempo_api.py)             *)
(* Each component has its own specification (SpecNormalize, SpecAggregate, *)
(* SpecParse, SpecGit, SpecTeam, SpecBatch); the variables of the other     *)
(* components stay at their idle values.                                   *)
(***************************************************************************)
EXTENDS Integers, Sequences, FiniteSets, TLC

VARIABLES
    \* ---- normalize_daily_hours ----
    entries,        \* the list passed in; its dicts are updated in place
    input,          \* the list as it was on entry (never written)
    daily_minutes,  \* daily_hours * 60
    by_date,        \* insertion-ordered dict: sequence of [date, idx] items
    k,              \* position of the second loop in by_date.items()
    npc,            \* "idle" | "collect" | "group" | "normalize" | "done" | "error"
    \* ---- WeeklyWorklog ----
    sessions,       \* worklog.sessions
    summaries,      \* <<r>>: r is what get_project_summaries() returned; <<>> before
    covered,        \* <<r>>: r is what dates_covered returned; <<>> before
    \* ---- ClaudeSessionParser.parse_date_range ----
    start_date,     \* first day of the requested range (a day number)
    end_date,       \* last day of the requested range
    parsed,         \* worklog.sessions of the WeeklyWorklog being built
    fileNo,         \* session files opened so far
    file,           \* the open file: its project_name and session_id
    lineNo,         \* lines of the open file read so far
    outside,        \* TRUE once a record dated outside the range has been read
    file_by_date,   \* by_date of _parse_session_file_range: [date_key, timestamps] items
    valid_read,     \* [day, timestamps]: per day, the in-range timestamps read from the open file, in file order
    dropped,        \* TRUE when a date bucket of the last file spanned less than MinDuration minutes
    ppc,            \* "idle" | "files" | "lines" | "done" | "raised"
    \* ---- GitSessionParser ----
    git_fs,         \* what each path is on disk: "missing" | "directory" | "repository"
    repo_paths,     \* GitSessionParser.repo_paths
    last_add,       \* <<c>>: c records the last add_repo call; <<>> before any
    gpc,            \* "idle" | "ready"
    \* ---- TeamReportGenerator ----
    teams,              \* the teams file TeamConfig loads and saves: name -> TeamInfo
    issue_type_cache,   \* self._issue_type_cache of the generator in use
    calls,              \* generate_report calls begun; also the reading of datetime.now()
    team_name,          \* argument of the call in progress (or of the last call)
    roster_source,      \* which roster API the call queried: "none" | "tempo" | "jira"
    members,            \* the roster resolved by this call
    fetched,            \* per roster position fetched so far: [ok, worklogs] of get_worklogs_for_user
    callback,           \* TRUE when the call was given a progress_callback
    progress,           \* the calls the progress_callback received, in order
    member_worklogs,    \* dict account_id -> worklogs
    all_issue_keys,     \* set of issue keys collected
    jira_answer,        \* <<a>>: a is how the Jira search answered this call; <<>> before
    issue_types,        \* what batch_get_issue_types returned to this call
    member_summaries,   \* the summaries in roster order, before the sort
    report,             \* <<r>>: the TeamReportData returned or constructed; <<>> if none
    outcome,            \* "none" | "returned" | "raised" | "constructed"
    tpc,                \* "idle" | "ready" | "roster" | "fetch"
    \* ---- JiraClient.batch_get_issue_types ----
    batch_in,           \* [issue_keys, jira]: the list passed and how the Jira search answers
    batch_out           \* <<[queried, result]>>: the batches queried and the dict returned; <<>> before

nvars == <<entries, input, daily_minutes, by_date, k, npc>>

avars == <<sessions, summaries, covered>>

pvars ==
    <<start_date, end_date, parsed, fileNo, file, lineNo, outside, file_by_date,
      valid_read, dropped, ppc>>

gvars == <<git_fs, repo_paths, last_add, gpc>>

tvars ==
    <<teams, issue_type_cache, calls, team_name, roster_source, members, fetched,
      callback, progress, member_worklogs, all_issue_keys, jira_answer, issue_types, member_summaries, report,
      outcome, tpc>>

bvars == <<batch_in, batch_out>>

vars == <<nvars, avars, pvars, gvars, tvars, bvars>>

(***************************************************************************)
(* Generic helpers                                                         *)
(***************************************************************************)
RECURSIVE SumSeq(_)
SumSeq(s) == IF s = <<>> THEN 0 ELSE Head(s) + SumSeq(Tail(s))

Range(s) == {s[j] : j \in DOMAIN s}

(***************************************************************************)
(* normalize_daily_hours(entries, daily_hours)                             *)
(***************************************************************************)
MaxEntries == 3

\* Minutes an entry can carry; the values of the repository's tests.
MinutesSet == {0, 10, 60, 300}

NormDates == {"2025-01-01", "2025-01-02"}

\* daily_hours of 4.0 and 8.0 (the default): daily_minutes = daily_hours * 60.
DailyMinutesSet == {240, 480}

\* The increment the callers of the tests ask for (round_to_minutes=30).
RoundToMinutes == 30

\* An upload entry: kind "entry" is {'entry': DailyProjectEntry...}, whose date
\* and minutes are attributes of e['entry']; kind "event" is a calendar dict with
\* its own 'date' and 'minutes' keys.  original_minutes and normalized_minutes
\* are dict keys that may be missing: <<>> is a missing key, <<v>> the value v.
InputEntries ==
    [kind : {"entry", "event"}, date : NormDates, minutes : MinutesSet,
     original_minutes : {<<>>}, normalized_minutes : {<<>>}]

\* Position of a date among the keys of by_date, 0 when it is not a key.
KeyIndex(bd, date) ==
    IF \E j \in DOMAIN bd : bd[j].date = date
    THEN CHOOSE j \in DOMAIN bd : bd[j].date = date
    ELSE 0

\* if date not in by_date: by_date[date] = [];  by_date[date].append(e)
OneListForAll(bd, date, idx) ==
    IF bd = <<>>
    THEN Append(bd, [date |-> date, idx |-> <<idx>>])
    ELSE [bd EXCEPT ![1].idx = Append(@, idx)]

ByDateAppend(bd, date, idx) ==
    IF KeyIndex(bd, date) = 0
    THEN Append(bd, [date |-> date, idx |-> <<idx>>])
    ELSE [bd EXCEPT ![KeyIndex(bd, date)].idx = Append(@, idx)]

\* The first loop: every entry gets original_minutes and joins its date's list.
RECURSIVE GroupByDate(_, _, _)
GroupByDate(es, bd, j) ==
    IF j > Len(es) THEN bd
    ELSE GroupByDate(es, ByDateAppend(bd, es[j].date, j), j + 1)

\* e['original_minutes'] = original_minutes
WithOriginal(e) == [e EXCEPT !.original_minutes = <<e.minutes>>]

\* sum(e['original_minutes'] for e in day_entries)
DayTotalAllDates(es, idx) ==
    SumSeq([j \in DOMAIN es |-> es[j].original_minutes[1]])

DayTotal(es, idx) ==
    SumSeq([j \in DOMAIN idx |-> es[idx[j]].original_minutes[1]])

\* if total_minutes == 0: continue
NeverSkip(total) == FALSE

SkipsDay(total) == total = 0

\* int((original / total) * daily_minutes).  The source computes this in
\* double precision; for every original, total and daily_minutes this model
\* can produce, the truncated double equals the exact integer quotient.
NormalizedMinutes(original, total, dm) == (original * dm) \div total

\* e['normalized_minutes'] = int(ratio * daily_minutes)
OverwriteMinutes(e, total, dm) ==
    [e EXCEPT !.normalized_minutes = <<NormalizedMinutes(e.original_minutes[1], total, dm)>>,
              !.minutes = NormalizedMinutes(e.original_minutes[1], total, dm)]

SetNormalized(e, total, dm) ==
    [e EXCEPT !.normalized_minutes = <<NormalizedMinutes(e.original_minutes[1], total, dm)>>]

\* Lines 100-111: the second loop, from the k-th date of by_date on.
RECURSIVE NormalizeLoop(_, _, _, _)
NormalizeLoop(es, bd, kk, dm) ==
    IF kk > Len(bd) THEN es
    ELSE LET idx == bd[kk].idx
             total == DayTotal(es, idx)
         IN IF SkipsDay(total) THEN NormalizeLoop(es, bd, kk + 1, dm)
            ELSE NormalizeLoop([j \in DOMAIN es |->
                                   IF j \in Range(idx) THEN SetNormalized(es[j], total, dm)
                                   ELSE es[j]],
                               bd, kk + 1, dm)

\* normalize_daily_hours(entries, daily_hours): the list it returns, with
\* dm = daily_hours * 60.
normalize_daily_hours(es, dm) ==
    NormalizeLoop([j \in DOMAIN es |-> WithOriginal(es[j])], GroupByDate(es, <<>>, 1), 1, dm)

AggIdle == sessions = <<>> /\ summaries = <<>> /\ covered = <<>>

NoFile == [project_name |-> "", session_id |-> 0]

\* Nothing read yet from the open file, for any day.
NoneRead == {}

ParseIdle ==
    /\ start_date = 0 /\ end_date = 0 /\ parsed = <<>> /\ fileNo = 0
    /\ file = NoFile /\ lineNo = 0 /\ outside = FALSE /\ file_by_date = <<>>
    /\ valid_read = NoneRead /\ dropped = FALSE
    /\ ppc = "idle"

\* The paths handed to add_repo, and what a path can be on disk.
RepoPaths == {"my-repo", "not-a-repo", "nonexistent"}

PathKinds == {"missing", "directory", "repository"}

GitIdle ==
    /\ git_fs = [p \in RepoPaths |-> "missing"] /\ repo_paths = <<>>
    /\ last_add = <<>> /\ gpc = "idle"

\* A dict with no key.
EmptyDict == [x \in {} |-> 0]

TeamIdle ==
    /\ teams = EmptyDict /\ issue_type_cache = EmptyDict /\ calls = 0
    /\ team_name = "" /\ roster_source = "none" /\ members = <<>> /\ fetched = <<>>
    /\ callback = FALSE /\ progress = <<>>
    /\ member_worklogs = EmptyDict /\ all_issue_keys = {} /\ jira_answer = <<>>
    /\ issue_types = EmptyDict
    /\ member_summaries = <<>> /\ report = <<>> /\ outcome = "none" /\ tpc = "idle"

BatchIdle ==
    /\ batch_in = [issue_keys |-> <<>>, jira |-> [types |-> EmptyDict, failing |-> {}]]
    /\ batch_out = <<>>

NormIdle ==
    /\ entries = <<>> /\ input = <<>> /\ daily_minutes = 0
    /\ by_date = <<>> /\ k = 1 /\ npc = "idle"

NormInit ==
    /\ AggIdle /\ ParseIdle /\ GitIdle /\ TeamIdle /\ BatchIdle
    /\ entries = <<>>
    /\ input = <<>>
    /\ daily_minutes \in DailyMinutesSet
    /\ by_date = <<>>
    /\ k = 1
    /\ npc = "collect"

\* cli.py 766 / 799: the caller appends an upload entry for a project's day
\* or for a calendar event.
AppendEntry ==
    /\ npc = "collect"
    /\ Len(entries) < MaxEntries
    /\ \E e \in InputEntries : entries' = Append(entries, e)
    /\ UNCHANGED <<input, daily_minutes, by_date, k, npc, avars, pvars, gvars, tvars, bvars>>

\* cli.py 811-820: a non-empty list is handed to normalize_daily_hours.
CallNormalize ==
    /\ npc = "collect"
    /\ entries # <<>>
    /\ input' = entries
    /\ npc' = "group"
    /\ UNCHANGED <<entries, daily_minutes, by_date, k, avars, pvars, gvars, tvars, bvars>>

\* Lines 85-98: group the entries by date, recording original_minutes.
Group ==
    /\ npc = "group"
    /\ entries' = [j \in DOMAIN entries |-> WithOriginal(entries[j])]
    /\ by_date' = GroupByDate(entries, <<>>, 1)
    /\ npc' = "normalize"
    /\ UNCHANGED <<input, daily_minutes, k, avars, pvars, gvars, tvars, bvars>>

\* Lines 101-106: a date whose original minutes sum to zero is passed over.
SkipDay ==
    /\ npc = "normalize"
    /\ k <= Len(by_date)
    /\ SkipsDay(DayTotal(entries, by_date[k].idx))
    /\ k' = k + 1
    /\ UNCHANGED <<entries, input, daily_minutes, by_date, npc, avars, pvars, gvars, tvars, bvars>>

\* Lines 101-111: every entry of the date gets its share of daily_minutes.
\* A zero total that is not passed over divides by zero (ZeroDivisionError).
NormalizeDay ==
    /\ npc = "normalize"
    /\ k <= Len(by_date)
    /\ ~SkipsDay(DayTotal(entries, by_date[k].idx))
    /\ LET idx == by_date[k].idx
           total == DayTotal(entries, idx)
       IN IF total = 0
          THEN /\ npc' = "error"
               /\ UNCHANGED <<entries, k>>
          ELSE /\ entries' = [j \in DOMAIN entries |->
                                 IF j \in Range(idx)
                                 THEN SetNormalized(entries[j], total, daily_minutes)
                                 ELSE entries[j]]
               /\ k' = k + 1
               /\ npc' = npc
    /\ UNCHANGED <<input, daily_minutes, by_date, avars, pvars, gvars, tvars, bvars>>

\* Line 113: return entries.
NormReturn ==
    /\ npc = "normalize"
    /\ k > Len(by_date)
    /\ npc' = "done"
    /\ UNCHANGED <<entries, input, daily_minutes, by_date, k, avars, pvars, gvars, tvars, bvars>>

NormNext == AppendEntry \/ CallNormalize \/ Group \/ SkipDay \/ NormalizeDay \/ NormReturn

SpecNormalize == NormInit /\ [][NormNext]_vars

(***************************************************************************)
(* WeeklyWorklog: total_minutes, dates_covered, get_project_summaries      *)
(***************************************************************************)
MaxSessions == 3

\* DailyProjectEntry keeps at most 5 todos and 3 summaries.
TodoCap == 5

SummaryCap == 3

ProjectNames == {"project1", "project2"}

\* The calendar dates, in the order Python's sorted() puts the strings.
AggDateOrder == <<"2025-12-30", "2025-12-31">>

AggDates == Range(AggDateOrder)

\* What a session carries besides its project and date: a short session
\* with one message and one completed todo, or a longer one, started in
\* another directory and tagged with an issue, with two messages.  None is
\* written "None".
SessionDetails ==
    { [duration_minutes |-> 60, project_path |-> "/p1", jira_id |-> "None",
       summary |-> <<"m1">>, todos |-> <<"t1">>],
      [duration_minutes |-> 90, project_path |-> "/p2", jira_id |-> "PROJ-1",
       summary |-> <<"m2", "m3">>, todos |-> <<"t2">>] }

\* WorkSession (session_id, start_time and end_time are not read here).
WorkSessions ==
    { [project_name |-> p, project_path |-> x.project_path, date |-> d,
       duration_minutes |-> x.duration_minutes, summary |-> x.summary,
       todos |-> x.todos, jira_id |-> x.jira_id] :
        p \in ProjectNames, d \in AggDates, x \in SessionDetails }

\* The iteration orders a set of todo strings can have: it depends on the
\* strings' hashes and on the order of insertion, so every order can occur.
TodoOrders == {<<"t1", "t2">>, <<"t2", "t1">>}

\* The todos of the sessions of one project on one date.
TodosOf(ss, name, date) ==
    UNION {Range(ss[j].todos) : j \in {i \in DOMAIN ss : ss[i].project_name = name /\ ss[i].date = date}}

\* One iteration order for the set built for each (project, date) entry; an
\* entry with fewer than two distinct todos has a single order.
TodoOrderings(ss) ==
    {o \in [ProjectNames \X AggDates -> TodoOrders] :
        \A pd \in ProjectNames \X AggDates :
            Cardinality(TodosOf(ss, pd[1], pd[2])) < 2 => o[pd] = <<"t1", "t2">>}

Min(a, b) == IF a <= b THEN a ELSE b

\* s[:n]
Take(s, n) == SubSeq(s, 1, Min(n, Len(s)))

\* The keys of a defaultdict in insertion order: each value once, first seen first.
RECURSIVE FirstSeen(_)
AsListed(keys) == keys

FirstSeen(keys) ==
    IF keys = <<>> THEN <<>>
    ELSE LET rest == FirstSeen(SubSeq(keys, 1, Len(keys) - 1))
             last == keys[Len(keys)]
         IN IF last \in Range(rest) THEN rest ELSE Append(rest, last)

\* all.extend(x) for every x of a sequence of lists.
RECURSIVE Flatten(_)
Flatten(ls) == IF ls = <<>> THEN <<>> ELSE Head(ls) \o Flatten(Tail(ls))

\* by_project[name]: the sessions of a project, in list order.
AllSessions(ss, name) == ss

ProjectSessions(ss, name) ==
    LET Of(x) == x.project_name = name IN SelectSeq(ss, Of)

\* by_date[date]: the sessions of one date among a project's sessions.
DaySessions(ps, date) ==
    LET On(x) == x.date = date IN SelectSeq(ps, On)

\* sum(s.duration_minutes for s in day_sessions)
FirstSessionMinutes(ds) == ds[1].duration_minutes

EntryMinutes(ds) == SumSeq([j \in DOMAIN ds |-> ds[j].duration_minutes])

\* list(set(all_todos)): the distinct todos in the set's iteration order.
ListOfSet(all, order) ==
    LET In(t) == t \in Range(all) IN SelectSeq(order, In)

\* DailyProjectEntry(date, minutes, todos, summaries) of one date's sessions.
DailyProjectEntry(date, ds, order) ==
    [date |-> date,
     minutes |-> EntryMinutes(ds),
     todos |-> Take(ListOfSet(Flatten([j \in DOMAIN ds |-> ds[j].todos]), order), TodoCap),
     summaries |-> Take(Flatten([j \in DOMAIN ds |-> ds[j].summary]), SummaryCap)]

\* daily_entries of a project: one entry per date, in the order the dates
\* are first seen among the project's sessions.
DailyEntries(name, ps, ord) ==
    LET dates == FirstSeen([j \in DOMAIN ps |-> ps[j].date])
    IN [b \in DOMAIN dates |->
           DailyProjectEntry(dates[b], DaySessions(ps, dates[b]), ord[<<name, dates[b]>>])]

\* total_minutes = sum(s.duration_minutes for s in sessions)
LastDayMinutes(ps) == EntryMinutes(DaySessions(ps, ps[Len(ps)].date))

TotalMinutes(ps) == SumSeq([j \in DOMAIN ps |-> ps[j].duration_minutes])

\* ProjectSummary(...) of one project's sessions.
ProjectSummary(name, ps, ord) ==
    [project_name |-> name,
     project_path |-> ps[1].project_path,
     total_minutes |-> TotalMinutes(ps),
     daily_entries |-> DailyEntries(name, ps, ord),
     jira_id |-> ps[1].jira_id]

\* Where x goes in a list already sorted by total_minutes descending: before
\* the first element with a smaller total, so equal totals keep their order.
InsertDesc(sorted, x) ==
    LET smaller == {j \in DOMAIN sorted : sorted[j].total_minutes < x.total_minutes}
    IN IF smaller = {} THEN Append(sorted, x)
       ELSE LET at == CHOOSE j \in smaller : \A i \in smaller : j <= i
            IN SubSeq(sorted, 1, at - 1) \o <<x>> \o SubSeq(sorted, at, Len(sorted))

\* sorted(summaries, key=lambda s: s.total_minutes, reverse=True): stable.
RECURSIVE SortedByTotalDesc(_)
Unsorted(list) == list

SortedByTotalDesc(list) ==
    IF list = <<>> THEN <<>>
    ELSE InsertDesc(SortedByTotalDesc(SubSeq(list, 1, Len(list) - 1)), list[Len(list)])

\* WeeklyWorklog.get_project_summaries()
GetProjectSummaries(ss, ord) ==
    LET names == FirstSeen([j \in DOMAIN ss |-> ss[j].project_name])
    IN SortedByTotalDesc(
          [a \in DOMAIN names |->
              ProjectSummary(names[a], ProjectSessions(ss, names[a]), ord)])

\* WeeklyWorklog.dates_covered: sorted(set(s.date for s in self.sessions))
DatesCovered(ss) ==
    LET Seen(d) == \E j \in DOMAIN ss : ss[j].date = d IN SelectSeq(AggDateOrder, Seen)

\* WeeklyWorklog.total_minutes
WorklogTotalMinutes(ss) == SumSeq([j \in DOMAIN ss |-> ss[j].duration_minutes])

AggInit == NormIdle /\ ParseIdle /\ GitIdle /\ TeamIdle /\ BatchIdle /\ AggIdle

\* worklog.sessions gains a session (the parsers extend the list).
AddSession ==
    /\ summaries = <<>> /\ covered = <<>>
    /\ Len(sessions) < MaxSessions
    /\ \E x \in WorkSessions : sessions' = Append(sessions, x)
    /\ UNCHANGED <<summaries, covered, nvars, pvars, gvars, tvars, bvars>>

\* A call of get_project_summaries(); the list of sessions is only read.
CallGetProjectSummaries ==
    /\ summaries = <<>>
    /\ \E ord \in TodoOrderings(sessions) : summaries' = <<GetProjectSummaries(sessions, ord)>>
    /\ UNCHANGED <<sessions, covered, nvars, pvars, gvars, tvars, bvars>>

\* A read of dates_covered.
ReadDatesCovered ==
    /\ covered = <<>>
    /\ covered' = <<DatesCovered(sessions)>>
    /\ UNCHANGED <<sessions, summaries, nvars, pvars, gvars, tvars, bvars>>

AggNext == AddSession \/ CallGetProjectSummaries \/ ReadDatesCovered

SpecAggregate == AggInit /\ [][AggNext]_vars


(***************************************************************************)
(* ClaudeSessionParser.parse_date_range / _parse_session_file_range        *)
(***************************************************************************)
MaxFiles == 2

MaxLines == 3

\* Days are numbered.  The requested range lies within RangeDays: the days
\* on which some timestamp of TimestampSet falls.
RangeDays == {0, 1, 2}

\* if duration < 5: continue
MinDuration == 5

SecondsPerDay == 24 * 60 * 60

\* A parsed timestamp: an aware datetime, given by its instant (seconds since
\* 00:00:00 UTC of day 0) and its UTC offset in seconds ("Z" is offset 0).
Timestamp(day, hh, mm, ss, off) ==
    [inst |-> day * SecondsPerDay + hh * 3600 + mm * 60 + ss - off, off |-> off, aware |-> TRUE]

\* datetime.fromisoformat of a text without offset ("2025-01-01T09:00:00"): a
\* naive datetime, which compares with naive ones by its wall-clock time.
NaiveTimestamp(day, hh, mm, ss) ==
    [inst |-> day * SecondsPerDay + hh * 3600 + mm * 60 + ss, off |-> 0, aware |-> FALSE]

NaiveTimestampSet == {NaiveTimestamp(1, 0, 10, 30)}

Plus8 == 8 * 3600

TimestampSet ==
    { Timestamp(1, 0, 0, 0, 0),
      Timestamp(1, 0, 4, 59, 0),
      Timestamp(1, 0, 10, 30, 0),
      Timestamp(1, 7, 50, 0, Plus8),     \* day 1 at +08:00, day 0 in UTC
      Timestamp(2, 6, 0, 0, Plus8),      \* day 2 at +08:00, day 1 in UTC
      Timestamp(2, 0, 0, 0, 0) }

\* ts.date() and ts.strftime('%Y-%m-%d'): the calendar day of the timestamp
\* in its own offset.
DateOf(ts) == (ts.inst + ts.off) \div SecondsPerDay

\* A line of a session file: text that is not JSON, a record without a
\* 'timestamp' key, a record with one, or a line whose handling raises
\* something other than JSONDecodeError (JSON that is not an object, a
\* timestamp that is not ISO text, bytes that are not UTF-8).
Lines ==
    {[kind |-> "corrupt"], [kind |-> "no_timestamp"], [kind |-> "raising"]}
        \cup {[kind |-> "record", ts |-> t] : t \in TimestampSet \cup NaiveTimestampSet}

\* min / max / sort compare the datetimes: comparing a naive with an aware
\* one raises TypeError.
Comparable(tss) == \A i, j \in DOMAIN tss : tss[i].aware = tss[j].aware

\* The project directories, in iterdir() order; _extract_project_name has
\* already been applied to their names.  Each holds one session file, so
\* the n-th file opened belongs to the n-th directory (counted cyclically).
ParseProjects == <<"recap", "tempo">>

ProjectOfFile(n) == ParseProjects[((n - 1) % Len(ParseProjects)) + 1]

\* start_date <= ts.date() <= end_date
NoUpperBound(day, start, end) == start <= day

InRange(day, start, end) == start <= day /\ day <= end

\* day_data = by_date[date_key]; day_data['timestamps'].append(ts)
BucketAppend(bd, ts) ==
    LET at == {j \in DOMAIN bd : bd[j].date_key = DateOf(ts)}
    IN IF at = {}
       THEN Append(bd, [date_key |-> DateOf(ts), timestamps |-> <<ts>>])
       ELSE [bd EXCEPT ![CHOOSE j \in at : TRUE].timestamps = Append(@, ts)]

\* Lines 218-234: by_date after one more line of the file.
AbortOnBadLine(bd, line, start, end) ==
    IF line.kind = "corrupt" THEN <<>>
    ELSE IF line.kind = "no_timestamp" THEN <<>>
    ELSE IF ~InRange(DateOf(line.ts), start, end) THEN bd
    ELSE BucketAppend(bd, line.ts)

AfterLine(bd, line, start, end) ==
    IF line.kind = "corrupt" THEN bd                       \* JSONDecodeError
    ELSE IF line.kind = "no_timestamp" THEN bd
    ELSE IF ~InRange(DateOf(line.ts), start, end) THEN bd
    ELSE BucketAppend(bd, line.ts)

\* The timestamps of day d read so far, as recorded in a valid_read value.
ReadOn(vr, d) ==
    IF \E r \in vr : r.day = d THEN (CHOOSE r \in vr : r.day = d).timestamps ELSE <<>>

\* valid_read after one more line: a record with a timestamp on a day of
\* start..end is noted under its day.
NoteRead(vr, line, start, end) ==
    IF line.kind = "record" /\ start <= DateOf(line.ts) /\ DateOf(line.ts) <= end
    THEN {r \in vr : r.day # DateOf(line.ts)}
            \cup {[day |-> DateOf(line.ts),
                   timestamps |-> Append(ReadOn(vr, DateOf(line.ts)), line.ts)]}
    ELSE vr

\* The seconds between the earliest and the latest of a bucket's timestamps.
SpanSeconds(tss) ==
    LET insts == {tss[j].inst : j \in DOMAIN tss}
    IN (CHOOSE hi \in insts : \A x \in insts : x <= hi)
         - (CHOOSE lo \in insts : \A x \in insts : lo <= x)

\* A bucket of bd spans less than MinDuration minutes.
HasShortBucket(bd) ==
    \E b \in DOMAIN bd : SpanSeconds(bd[b].timestamps) < MinDuration * 60

\* A record whose timestamp lies on a day outside start..end.
IsOutside(line, start, end) ==
    line.kind = "record" /\ (DateOf(line.ts) < start \/ DateOf(line.ts) > end)

\* min(timestamps) / max(timestamps): aware datetimes compare by instant, and
\* the first of several equal ones is returned.
FirstTimestamp(tss) == tss[1]

MinTimestamp(tss) ==
    tss[CHOOSE j \in DOMAIN tss :
            \A i \in DOMAIN tss : tss[j].inst < tss[i].inst \/ (tss[j].inst = tss[i].inst /\ j <= i)]

MaxTimestamp(tss) ==
    tss[CHOOSE j \in DOMAIN tss :
            \A i \in DOMAIN tss : tss[j].inst > tss[i].inst \/ (tss[j].inst = tss[i].inst /\ j <= i)]

\* if duration < 5: continue
KeepsAnySpan(duration) == FALSE

TooShort(duration) == duration < MinDuration

\* int((end_time - start_time).total_seconds() / 60)
DurationMinutes(start_time, end_time) == (end_time.inst - start_time.inst) \div 60

\* Lines 260-284: the WorkSessions of a file's by_date, one per date bucket
\* whose span is at least MinDuration minutes.  (project_path, summary and
\* todos are left out: nothing here reads them.)
RECURSIVE FileSessions(_, _)
FileSessions(bd, f) ==
    IF bd = <<>> THEN <<>>
    ELSE LET day_data == Head(bd)
             start_time == MinTimestamp(day_data.timestamps)
             end_time == MaxTimestamp(day_data.timestamps)
             duration == DurationMinutes(start_time, end_time)
         IN (IF TooShort(duration) THEN <<>>
             ELSE << [project_name |-> f.project_name,
                      session_id |-> f.session_id,
                      start_time |-> start_time,
                      end_time |-> end_time,
                      duration_minutes |-> duration,
                      date |-> day_data.date_key] >>)
            \o FileSessions(Tail(bd), f)

\* Where x goes in a list sorted by start_time: after every element that does
\* not start later (list.sort is stable).
InsertByStart(sorted, x) ==
    LET later == {j \in DOMAIN sorted : sorted[j].start_time.inst > x.start_time.inst}
    IN IF later = {} THEN Append(sorted, x)
       ELSE LET at == CHOOSE j \in later : \A i \in later : j <= i
            IN SubSeq(sorted, 1, at - 1) \o <<x>> \o SubSeq(sorted, at, Len(sorted))

\* worklog.sessions.sort(key=lambda s: s.start_time)
RECURSIVE SortedByStart(_)
SortedByStart(list) ==
    IF list = <<>> THEN <<>>
    ELSE InsertByStart(SortedByStart(SubSeq(list, 1, Len(list) - 1)), list[Len(list)])

\* Lines 167-169: parse_date_range(start_date, end_date) is entered.
ParseInit ==
    /\ NormIdle /\ AggIdle /\ GitIdle /\ TeamIdle /\ BatchIdle
    /\ start_date \in RangeDays
    /\ end_date \in {d \in RangeDays : start_date <= d}
    /\ parsed = <<>>
    /\ fileNo = 0
    /\ file = NoFile
    /\ lineNo = 0
    /\ outside = FALSE
    /\ file_by_date = <<>>
    /\ valid_read = NoneRead
    /\ dropped = FALSE
    /\ ppc = "files"

\* Lines 171-183, 206-216: the next session file of some project is opened.
OpenFile ==
    /\ ppc = "files"
    /\ fileNo < MaxFiles
    /\ file' = [project_name |-> ProjectOfFile(fileNo + 1), session_id |-> fileNo + 1]
    /\ fileNo' = fileNo + 1
    /\ lineNo' = 0
    /\ file_by_date' = <<>>
    /\ valid_read' = NoneRead
    /\ ppc' = "lines"
    /\ dropped' = FALSE
    /\ UNCHANGED <<start_date, end_date, parsed, outside, nvars, avars, gvars, tvars, bvars>>

\* Lines 217-253: one more line of the open file is read.
ReadLine ==
    /\ ppc = "lines"
    /\ lineNo < MaxLines
    /\ \E line \in Lines :
          /\ line.kind # "raising"
          /\ file_by_date' = AfterLine(file_by_date, line, start_date, end_date)
          /\ outside' = (outside \/ IsOutside(line, start_date, end_date))
          /\ valid_read' = NoteRead(valid_read, line, start_date, end_date)
    /\ lineNo' = lineNo + 1
    /\ UNCHANGED <<start_date, end_date, parsed, fileNo, file, dropped, ppc, nvars, avars, gvars, tvars, bvars>>

\* Lines 215-257: opening the file or handling a line raises inside the try:
\* the error is printed and the file gives [].
ReadFails ==
    /\ ppc = "lines"
    /\ lineNo < MaxLines
    /\ \E line \in Lines : line.kind = "raising"
    /\ file_by_date' = <<>>
    /\ valid_read' = NoneRead
    /\ lineNo' = 0
    /\ dropped' = FALSE
    /\ ppc' = "files"
    /\ UNCHANGED <<start_date, end_date, parsed, fileNo, file, outside, nvars, avars, gvars, tvars, bvars>>

\* Lines 260-284, 184: the file has no more lines; its sessions join the
\* worklog.  min(day_data['timestamps']) is outside the try: on a date with
\* naive and aware timestamps its TypeError leaves parse_date_range.
EndOfFile ==
    /\ ppc = "lines"
    /\ IF \A b \in DOMAIN file_by_date : Comparable(file_by_date[b].timestamps)
       THEN /\ parsed' = parsed \o FileSessions(file_by_date, file)
            /\ dropped' = HasShortBucket(file_by_date)
            /\ ppc' = "files"
       ELSE /\ parsed' = parsed
            /\ dropped' = FALSE
            /\ ppc' = "raised"
    /\ file_by_date' = <<>>
    /\ valid_read' = NoneRead
    /\ lineNo' = 0
    /\ UNCHANGED <<start_date, end_date, fileNo, file, outside, nvars, avars, gvars, tvars, bvars>>

\* Lines 186-187: no more files; the sessions are sorted and returned.  The
\* sort compares start times: naive and aware ones together raise TypeError.
ParseReturn ==
    /\ ppc = "files"
    /\ IF Comparable([j \in DOMAIN parsed |-> parsed[j].start_time])
       THEN parsed' = SortedByStart(parsed) /\ ppc' = "done"
       ELSE parsed' = parsed /\ ppc' = "raised"
    /\ UNCHANGED <<start_date, end_date, fileNo, file, lineNo, outside, file_by_date,
                   valid_read, dropped, nvars, avars, gvars, tvars, bvars>>

ParseNext == OpenFile \/ ReadLine \/ ReadFails \/ EndOfFile \/ ParseReturn

SpecParse == ParseInit /\ [][ParseNext]_vars

(***************************************************************************)
(* GitSessionParser.add_repo (recap.session_parser, as spec.md describes   *)
(* the commit-based extractor)                                             *)
(***************************************************************************)
\* Calls of add_repo made on one parser.
MaxAdds == 3

\* "validated as a real repository": the path exists and holds repository
\* metadata (.git).
ExistsOnly(fsys, path) == fsys[path] # "missing"

IsRepository(fsys, path) == fsys[path] = "repository"

\* add_repo(path): a usable repository is retained and True is returned; any
\* other path is rejected with False, no error, and is not retained.
add_repo(paths, fsys, path) ==
    IF IsRepository(fsys, path)
    THEN [returned |-> TRUE, raised |-> FALSE, repo_paths |-> Append(paths, path)]
    ELSE [returned |-> FALSE, raised |-> FALSE, repo_paths |-> paths]

\* GitSessionParser(): no repository is configured.
GitInit ==
    /\ NormIdle /\ AggIdle /\ ParseIdle /\ TeamIdle /\ BatchIdle
    /\ git_fs \in [RepoPaths -> PathKinds]
    /\ repo_paths = <<>>
    /\ last_add = <<>>
    /\ gpc = "ready"

\* The number of add_repo calls made so far.
AddsMade == IF last_add = <<>> THEN 0 ELSE last_add[1].call

\* parser.add_repo(path)
AddRepo ==
    /\ gpc = "ready"
    /\ AddsMade < MaxAdds
    /\ \E path \in RepoPaths :
          LET r == add_repo(repo_paths, git_fs, path)
          IN /\ repo_paths' = r.repo_paths
             /\ last_add' = << [call |-> AddsMade + 1, path |-> path,
                                returned |-> r.returned, raised |-> r.raised,
                                before |-> repo_paths] >>
    /\ UNCHANGED <<git_fs, gpc, nvars, avars, pvars, tvars, bvars>>

GitNext == AddRepo

SpecGit == GitInit /\ [][GitNext]_vars

(***************************************************************************)
(* TeamReportGenerator.generate_report (src/src/recap/team.py), with       *)
(* TeamConfig (config.py) and JiraClient.batch_get_issue_types             *)
(* (tempo_api.py)                                                          *)
(***************************************************************************)
\* Length of a roster returned by the roster API.
MaxMembers == 2

\* generate_report calls made in one run.
MaxCalls == 2

\* batch_size = 50
BatchSize == 50

\* total_seconds / 3600
SecondsPerHour == 3600

\* d.get(key, default) on an optional value: <<>> is a missing key.
Get(opt, default) == IF opt = <<>> THEN default ELSE opt[1]

\* d[key] = d.get(key, 0) + v
DictSet(d, key, v) == [x \in DOMAIN d \cup {key} |-> IF x = key THEN v ELSE d[x]]

DictAdd(d, key, v) ==
    [x \in DOMAIN d \cup {key} |->
        IF x = key THEN (IF key \in DOMAIN d THEN d[key] ELSE 0) + v ELSE d[x]]

\* d.update(e)
DictUpdate(d, e) ==
    [x \in DOMAIN d \cup DOMAIN e |-> IF x \in DOMAIN e THEN e[x] ELSE d[x]]

\* sum(d.values())
RECURSIVE SumValues(_)
SumValues(d) ==
    IF DOMAIN d = {} THEN 0
    ELSE LET x == CHOOSE y \in DOMAIN d : TRUE
         IN d[x] + SumValues([y \in DOMAIN d \ {x} |-> d[y]])

\* ---- hours: seconds / 3600, kept as an exact fraction <<numerator, denominator>> ----
RECURSIVE GCD(_, _)
GCD(a, b) == IF b = 0 THEN a ELSE GCD(b, a % b)

Frac(n, d) == IF n = 0 THEN <<0, 1>> ELSE <<n \div GCD(n, d), d \div GCD(n, d)>>

FracAdd(a, b) == Frac(a[1] * b[2] + b[1] * a[2], a[2] * b[2])

\* sum(...) of a list of hours, from 0
RECURSIVE FracSum(_)
FracSum(hs) == IF hs = <<>> THEN Frac(0, 1) ELSE FracAdd(FracSum(SubSeq(hs, 1, Len(hs) - 1)), hs[Len(hs)])

\* seconds / 3600
Hours(seconds) == Frac(seconds, SecondsPerHour)

\* ---- the team configuration ----
ConfiguredTeam == "alpha"

TeamNameArgs == {"alpha", "ghost"}

\* TeamInfo as add_team leaves it: no cached members, never synced.
TeamInfo(jira_group, tempo_team_id) ==
    [jira_group |-> jira_group, tempo_team_id |-> tempo_team_id,
     members |-> <<>>, last_synced |-> <<>>]

\* tempo_team_id: <<>> is None.  jira_group: "" is not set.
TeamInfos ==
    {TeamInfo(g, t) : g \in {"", "dev-group"}, t \in {<<>>, <<7>>}}

\* TeamConfig.get_team(name): <<>> is None.
get_team(ts, name) == IF name \in DOMAIN ts THEN <<ts[name]>> ELSE <<>>

\* TeamConfig.update_members(name, members, synced_at), save() included.
update_last_synced(ts, name, ms, synced_at) ==
    IF name \in DOMAIN ts
    THEN [ts EXCEPT ![name] = [@ EXCEPT !.last_synced = <<synced_at>>]]
    ELSE ts

update_members(ts, name, ms, synced_at) ==
    IF name \in DOMAIN ts
    THEN [ts EXCEPT ![name] = [@ EXCEPT !.members = ms, !.last_synced = <<synced_at>>]]
    ELSE ts

\* ---- the roster APIs ----
\* A member as the roster API returns it; <<>> is a missing key.
ApiMember(accountId, key, name, displayName) ==
    [accountId |-> accountId, key |-> key, name |-> name, displayName |-> displayName]

ApiMembers ==
    { ApiMember(<<"acc-alice">>, <<"alice">>, <<"alice">>, <<"Alice">>),
      ApiMember(<<>>, <<"bob">>, <<"bob">>, <<"Bob">>),
      ApiMember(<<>>, <<>>, <<"alice">>, <<>>) }

\* a or b on optional strings
OrElse(a, b) == IF a # <<>> /\ a[1] # "" THEN a ELSE b

\* Lines 130-140: TeamMemberInfo of a Jira group member.
MemberFromJira(m) ==
    [account_id |-> Get(OrElse(OrElse(m.accountId, m.name), m.key), ""),
     display_name |-> Get(m.displayName, Get(m.name, "Unknown"))]

\* Lines 160-171: TeamMemberInfo of a Tempo team member.
MemberFromTempo(m) ==
    [account_id |-> Get(OrElse(m.key, m.name), ""),
     display_name |-> Get(m.displayName, Get(m.name, "Unknown"))]

\* Lists of distinct elements of S, of length at most n.
RECURSIVE ListsUpTo(_, _)
ListsUpTo(S, n) ==
    IF n = 0 THEN {<<>>}
    ELSE LET shorter == ListsUpTo(S, n - 1)
         IN shorter \cup UNION {{Append(q, x) : x \in S \ Range(q)} : q \in shorter}

\* What a roster API call can do: raise, or return a list of members.
RosterAnswers ==
    {[raised |-> TRUE, values |-> <<>>]}
        \cup {[raised |-> FALSE, values |-> v] : v \in ListsUpTo(ApiMembers, MaxMembers)}

\* Lines 185-190: which source get_team_members asks ("if x" on an Optional[int]
\* is false for None and for 0, on a string for "").
GroupFirst(team_info) ==
    IF team_info.jira_group # "" THEN "jira"
    ELSE IF team_info.tempo_team_id # <<>> /\ team_info.tempo_team_id[1] # 0 THEN "tempo"
    ELSE "none"

RosterSource(team_info) ==
    IF team_info.tempo_team_id # <<>> /\ team_info.tempo_team_id[1] # 0 THEN "tempo"
    ELSE IF team_info.jira_group # "" THEN "jira"
    ELSE "none"

\* get_team_members(team_info), given what the API asked would answer:
\* [raised, members].
get_team_members(team_info, answer) ==
    LET source == RosterSource(team_info)
    IN IF source = "none" THEN [raised |-> TRUE, members |-> <<>>]       \* ValueError
       ELSE IF answer.raised THEN [raised |-> TRUE, members |-> <<>>]
       ELSE [raised |-> FALSE,
             members |-> [j \in DOMAIN answer.values |->
                             IF source = "tempo" THEN MemberFromTempo(answer.values[j])
                             ELSE MemberFromJira(answer.values[j])]]

\* Lines 221-228: the team configuration after the roster step.
AlwaysCached(ts, name, r, now) == update_members(ts, name, r.members, now)

AfterRoster(ts, name, r, now) ==
    IF r.raised THEN ts ELSE update_members(ts, name, r.members, now)

\* Lines 236-238: for i, member in enumerate(members): if progress_callback:
\* progress_callback(member.display_name, i + 1, total_members).  The call is
\* made with the fetches of the members before this one done; fetches_done
\* notes how many.
ReportProgress(log, supplied, ms, i, done) ==
    IF supplied
    THEN Append(log, [name |-> ms[i + 1].display_name, index |-> i + 1, total |-> Len(ms),
                      fetches_done |-> Len(done)])
    ELSE log

\* ---- worklogs ----
\* A date-time text, given as its first ten characters and the rest.
DateText(first10, rest) == <<first10, rest>>

\* text[:10]
First10(text) == text[1]

\* A worklog dict of the Tempo API; <<>> is a missing key.
Worklog(issue, startDate, dateStarted, timeSpentSeconds) ==
    [issue |-> issue, startDate |-> startDate, dateStarted |-> dateStarted,
     timeSpentSeconds |-> timeSpentSeconds]

WlTask == Worklog(<<[key |-> <<"PROJ-1">>]>>, <<DateText("2025-01-06", "")>>, <<>>, <<3600>>)

WlBug == Worklog(<<[key |-> <<"PROJ-2">>]>>, <<>>, <<DateText("2025-01-07", "T09:00:00.000")>>, <<7200>>)

WlNoIssue == Worklog(<<>>, <<>>, <<>>, <<1800>>)

WlNoSeconds == Worklog(<<[key |-> <<>>]>>, <<DateText("2025-01-06", "")>>, <<>>, <<>>)

\* What get_worklogs_for_user can do for one member: raise, or return a list.
FetchAnswers ==
    {[ok |-> FALSE, worklogs |-> <<>>]}
        \cup {[ok |-> TRUE, worklogs |-> w] :
                 w \in { <<WlTask>>, <<WlTask, WlBug, WlTask>>, <<WlNoIssue, WlNoSeconds>> }}

\* wl.get("issue", {}).get("key"): <<>> is None.
IssueKeyOf(wl) == IF wl.issue = <<>> THEN <<>> ELSE wl.issue[1].key

\* Lines 249-252: the issue keys of a list of worklogs.
IssueKeysOf(worklogs) ==
    {IssueKeyOf(worklogs[j])[1] :
        j \in {i \in DOMAIN worklogs : IssueKeyOf(worklogs[i]) # <<>> /\ IssueKeyOf(worklogs[i])[1] # ""}}

\* Lines 240-255: member_worklogs after the fetch for one member.
SetWorklogs(mw, account_id, answer) ==
    [x \in DOMAIN mw \cup {account_id} |->
        IF x = account_id THEN (IF answer.ok THEN answer.worklogs ELSE <<>>) ELSE mw[x]]

\* ---- issue types ----
\* What the Jira search can do: the issues it finds with their types, and
\* the batches (by number) whose request raises.
JiraAnswers ==
    { [types |-> [x \in {"PROJ-1", "PROJ-2"} |-> IF x = "PROJ-1" THEN "Task" ELSE "Bug"], failing |-> {}],
      [types |-> [x \in {"PROJ-1"} |-> "Task"], failing |-> {}],
      [types |-> EmptyDict, failing |-> {1}] }

\* list(all_issue_keys): the keys in some order.
Orderings(S) ==
    {q \in [1..Cardinality(S) -> S] : \A i, j \in 1..Cardinality(S) : q[i] = q[j] => i = j}

\* tempo_api.py 164-165: batch number b (from 1) is issue_keys[i:i + batch_size]
\* with i = (b - 1) * batch_size.
OverlongBatch(issue_keys, b) ==
    SubSeq(issue_keys, (b - 1) * BatchSize + 1, Min(b * BatchSize + 1, Len(issue_keys)))

Batch(issue_keys, b) ==
    SubSeq(issue_keys, (b - 1) * BatchSize + 1, Min(b * BatchSize, Len(issue_keys)))

\* The batches the loop queries, from batch number b on.
RECURSIVE Batches(_, _)
Batches(issue_keys, b) ==
    IF (b - 1) * BatchSize >= Len(issue_keys) THEN <<>>
    ELSE <<Batch(issue_keys, b)>> \o Batches(issue_keys, b + 1)

\* tempo_api.py 164-187: the loop over batches, from batch number b on.
RECURSIVE BatchLoop(_, _, _, _)
BatchLoop(issue_keys, jira, b, result) ==
    IF (b - 1) * BatchSize >= Len(issue_keys) THEN result
    ELSE LET batch == Batch(issue_keys, b)
             found == Range(batch) \cap DOMAIN jira.types
         IN IF b \in jira.failing
            THEN BatchLoop(issue_keys, jira, b + 1,
                           [x \in DOMAIN result \cup Range(batch) |->
                               IF x \in DOMAIN result THEN result[x] ELSE "Unknown"])
            ELSE BatchLoop(issue_keys, jira, b + 1,
                           DictUpdate(result, [x \in found |-> jira.types[x]]))

\* JiraClient.batch_get_issue_types(issue_keys)
batch_get_issue_types(issue_keys, jira) ==
    IF issue_keys = <<>> THEN EmptyDict ELSE BatchLoop(issue_keys, jira, 1, EmptyDict)

\* ---- _process_member_worklogs ----
\* wl.get("startDate", wl.get("dateStarted", ""))[:10]
DateOfWorklog(wl) == First10(Get(wl.startDate, Get(wl.dateStarted, DateText("", ""))))

\* MemberWorklogSummary(member=member)
MemberWorklogSummary(member) ==
    [member |-> member, total_seconds |-> 0, entries |-> <<>>,
     by_issue_type |-> EmptyDict, by_date |-> EmptyDict, by_issue |-> EmptyDict]

\* Lines 289-319: the summary after one more worklog.
AddWorklog(summary, wl, cache) ==
    LET issue_key == IF wl.issue = <<>> THEN "Unknown" ELSE Get(wl.issue[1].key, "Unknown")
        issue_type == IF issue_key \in DOMAIN cache THEN cache[issue_key] ELSE "Unknown"
        date == DateOfWorklog(wl)
        seconds == Get(wl.timeSpentSeconds, 0)
        entry == [issue_key |-> issue_key, issue_type |-> issue_type, date |-> date,
                  time_spent_seconds |-> seconds,
                  author_id |-> summary.member.account_id,
                  author_name |-> summary.member.display_name]
    IN [summary EXCEPT
           !.entries = Append(@, entry),
           !.total_seconds = @ + seconds,
           !.by_issue_type = DictAdd(@, issue_type, seconds),
           !.by_date = DictAdd(@, date, seconds),
           !.by_issue = DictAdd(@, issue_key, seconds)]

RECURSIVE ProcessLoop(_, _, _)
ProcessLoop(summary, worklogs, cache) ==
    IF worklogs = <<>> THEN summary
    ELSE ProcessLoop(AddWorklog(summary, Head(worklogs), cache), Tail(worklogs), cache)

\* _process_member_worklogs(member, worklogs)
process_member_worklogs(member, worklogs, cache) ==
    ProcessLoop(MemberWorklogSummary(member), worklogs, cache)

\* Lines 262-266: the summaries in roster order.
Summaries(ms, mw, cache) ==
    [j \in DOMAIN ms |->
        process_member_worklogs(
            ms[j],
            IF ms[j].account_id \in DOMAIN mw THEN mw[ms[j].account_id] ELSE <<>>,
            cache)]

\* Where x goes in a list sorted by total_seconds, largest first.
InsertBeforeEqual(sorted, x) ==
    LET notmore == {j \in DOMAIN sorted : sorted[j].total_seconds <= x.total_seconds}
    IN IF notmore = {} THEN Append(sorted, x)
       ELSE LET at == CHOOSE j \in notmore : \A i \in notmore : j <= i
            IN SubSeq(sorted, 1, at - 1) \o <<x>> \o SubSeq(sorted, at, Len(sorted))

\* list.sort is stable, also with reverse=True: x goes after every element
\* whose total is not smaller.
InsertByTotalSeconds(sorted, x) ==
    LET less == {j \in DOMAIN sorted : sorted[j].total_seconds < x.total_seconds}
    IN IF less = {} THEN Append(sorted, x)
       ELSE LET at == CHOOSE j \in less : \A i \in less : j <= i
            IN SubSeq(sorted, 1, at - 1) \o <<x>> \o SubSeq(sorted, at, Len(sorted))

\* member_summaries.sort(key=lambda x: x.total_seconds, reverse=True)
RECURSIVE SortByTotalSeconds(_)
SortByTotalSeconds(list) ==
    IF list = <<>> THEN <<>>
    ELSE InsertByTotalSeconds(SortByTotalSeconds(SubSeq(list, 1, Len(list) - 1)), list[Len(list)])

\* ---- TeamReportData ----
\* (start_date and end_date are passed through and left out.)
TeamReportData(name, jira_group, generated_at, ms) ==
    [team_name |-> name, jira_group |-> jira_group, generated_at |-> generated_at,
     members |-> ms]

\* sum(m.total_seconds for m in self.members)
FirstMemberSeconds(ms) == IF ms = <<>> THEN 0 ELSE ms[1].total_seconds

MembersSeconds(ms) == SumSeq([j \in DOMAIN ms |-> ms[j].total_seconds])

\* TeamReportData.total_hours
total_hours(r) == Hours(MembersSeconds(r.members))

\* MemberWorklogSummary.total_hours
member_total_hours(m) == Hours(m.total_seconds)

\* totals[key] = totals.get(key, 0) + seconds / 3600
SetHours(totals, key, seconds) == Hours(seconds)

AddHours(totals, key, seconds) ==
    FracAdd(IF key \in DOMAIN totals THEN totals[key] ELSE Frac(0, 1), Hours(seconds))

\* Lines 66-68 / 75-77: the loop over the members' breakdown dicts.
RECURSIVE TotalsLoop(_, _)
TotalsLoop(dicts, totals) ==
    IF dicts = <<>> THEN totals
    ELSE LET d == Head(dicts)
         IN TotalsLoop(Tail(dicts),
                       [x \in DOMAIN totals \cup DOMAIN d |->
                           IF x \in DOMAIN d THEN AddHours(totals, x, d[x]) ELSE totals[x]])

\* TeamReportData.by_issue_type_total
by_issue_type_total(r) ==
    TotalsLoop([j \in DOMAIN r.members |-> r.members[j].by_issue_type], EmptyDict)

\* TeamReportData.by_date_total
by_date_total(r) ==
    TotalsLoop([j \in DOMAIN r.members |-> r.members[j].by_date], EmptyDict)

\* Summaries as the tests hand them to TeamReportData directly.
TestSummary(account_id, display_name, total_seconds, by_issue_type) ==
    [MemberWorklogSummary([account_id |-> account_id, display_name |-> display_name])
        EXCEPT !.total_seconds = total_seconds, !.by_issue_type = by_issue_type]

TestSummaries ==
    { TestSummary("user1", "User 1", 7200, EmptyDict),
      TestSummary("user2", "User 2", 3600, EmptyDict),
      TestSummary("user2", "User 2", 3600,
                  [x \in {"Task", "Story"} |-> 1800]) }

\* ---- the steps of a run ----
\* A generator has been constructed for a configuration with one team.
TeamInit ==
    /\ NormIdle /\ AggIdle /\ ParseIdle /\ GitIdle /\ BatchIdle
    /\ teams \in {[x \in {ConfiguredTeam} |-> info] : info \in TeamInfos}
    /\ issue_type_cache = EmptyDict
    /\ calls = 0
    /\ team_name = ""
    /\ roster_source = "none"
    /\ members = <<>>
    /\ fetched = <<>>
    /\ callback = FALSE
    /\ progress = <<>>
    /\ member_worklogs = EmptyDict
    /\ all_issue_keys = {}
    /\ jira_answer = <<>>
    /\ issue_types = EmptyDict
    /\ member_summaries = <<>>
    /\ report = <<>>
    /\ outcome = "none"
    /\ tpc = "ready"

\* No call in progress: the locals of generate_report hold nothing.
NoLocals ==
    /\ roster_source' = "none"
    /\ members' = <<>>
    /\ fetched' = <<>>
    /\ progress' = <<>>
    /\ member_worklogs' = EmptyDict
    /\ all_issue_keys' = {}
    /\ jira_answer' = <<>>
    /\ issue_types' = EmptyDict
    /\ member_summaries' = <<>>

\* Lines 98-115: TeamReportGenerator(config): another generator is taken
\* into use; its cache is empty.
NewGenerator ==
    /\ tpc = "ready"
    /\ issue_type_cache # EmptyDict
    /\ issue_type_cache' = EmptyDict
    /\ UNCHANGED <<teams, calls, team_name, roster_source, members, fetched, callback,
                   progress, member_worklogs,
                   all_issue_keys, jira_answer, issue_types, member_summaries, report, outcome,
                   tpc, nvars, avars, pvars, gvars, bvars>>

\* Lines 211-218: generate_report(team_name, ...) is entered; an unknown
\* team raises ValueError.  (self.tempo is always set by __init__.)
CallGenerateReport ==
    /\ tpc = "ready"
    /\ calls < MaxCalls
    /\ calls' = calls + 1
    /\ \E name \in TeamNameArgs :
          /\ team_name' = name
          /\ IF get_team(teams, name) = <<>>
             THEN outcome' = "no_team" /\ tpc' = "ready" /\ callback' = FALSE
             ELSE outcome' = "none" /\ tpc' = "roster" /\ callback' \in BOOLEAN
    /\ NoLocals
    /\ report' = <<>>
    /\ UNCHANGED <<teams, issue_type_cache, nvars, avars, pvars, gvars, bvars>>

\* Lines 221-228: the roster is resolved and cached in the configuration.
RosterResolved ==
    /\ tpc = "roster"
    /\ \E answer \in RosterAnswers :
          LET r == get_team_members(teams[team_name], answer)
          IN /\ ~r.raised
             /\ members' = r.members
             /\ teams' = AfterRoster(teams, team_name, r, calls)
    /\ roster_source' = RosterSource(teams[team_name])
    /\ tpc' = "fetch"
    /\ UNCHANGED <<issue_type_cache, calls, team_name, fetched, callback, progress,
                   member_worklogs, all_issue_keys,
                   jira_answer, issue_types, member_summaries, report, outcome,
                   nvars, avars, pvars, gvars, bvars>>

\* Line 221: get_team_members raises; generate_report raises with it.
RosterFails ==
    /\ tpc = "roster"
    /\ \E answer \in RosterAnswers :
          LET r == get_team_members(teams[team_name], answer)
          IN /\ r.raised
             /\ teams' = AfterRoster(teams, team_name, r, calls)
    /\ roster_source' = RosterSource(teams[team_name])
    /\ outcome' = "roster_failed"
    /\ tpc' = "ready"
    /\ UNCHANGED <<issue_type_cache, calls, team_name, members, fetched, callback, progress,
                   member_worklogs,
                   all_issue_keys, jira_answer, issue_types, member_summaries, report,
                   nvars, avars, pvars, gvars, bvars>>

\* Lines 236-255: one pass of the loop over the roster: the progress callback
\* is called, then the member's worklogs are fetched.
FetchMember ==
    /\ tpc = "fetch"
    /\ Len(fetched) < Len(members)
    /\ progress' = ReportProgress(progress, callback, members, Len(fetched), fetched)
    /\ \E answer \in FetchAnswers :
          /\ fetched' = Append(fetched, answer)
          /\ member_worklogs' =
                SetWorklogs(member_worklogs, members[Len(fetched) + 1].account_id, answer)
          /\ all_issue_keys' =
                (IF answer.ok THEN all_issue_keys \cup IssueKeysOf(answer.worklogs)
                 ELSE all_issue_keys)
    /\ UNCHANGED <<teams, issue_type_cache, calls, team_name, roster_source, members,
                   callback,
                   jira_answer, issue_types, member_summaries, report, outcome, tpc,
                   nvars, avars, pvars, gvars, bvars>>

\* Lines 257-278: issue types are resolved and cached, the members are
\* summarised and sorted, and the report is returned.
FinishReport ==
    /\ tpc = "fetch"
    /\ Len(fetched) = Len(members)
    /\ \E jira \in JiraAnswers : \E issue_keys \in Orderings(all_issue_keys) :
          LET types == batch_get_issue_types(issue_keys, jira)
              cache == DictUpdate(issue_type_cache, types)
              sums == Summaries(members, member_worklogs, cache)
          IN /\ jira_answer' = <<jira>>
             /\ issue_types' = types
             /\ issue_type_cache' = cache
             /\ member_summaries' = sums
             /\ report' = << TeamReportData(team_name, teams[team_name].jira_group, calls,
                                            SortByTotalSeconds(sums)) >>
    /\ outcome' = "returned"
    /\ tpc' = "ready"
    /\ UNCHANGED <<teams, calls, team_name, roster_source, members, fetched, callback,
                   progress, member_worklogs,
                   all_issue_keys, nvars, avars, pvars, gvars, bvars>>

\* tests/test_team.py 152-199: a TeamReportData is built directly from
\* summaries.
ConstructReport ==
    /\ tpc = "ready"
    /\ calls = 0
    /\ \E ms \in ListsUpTo(TestSummaries, MaxMembers) :
          report' = << TeamReportData("Test Team", "test-group", 0, ms) >>
    /\ outcome' = "constructed"
    /\ NoLocals
    /\ UNCHANGED <<teams, issue_type_cache, calls, team_name, callback, tpc,
                   nvars, avars, pvars, gvars, bvars>>

TeamNext ==
    \/ NewGenerator \/ CallGenerateReport \/ RosterResolved \/ RosterFails
    \/ FetchMember \/ FinishReport \/ ConstructReport

SpecTeam == TeamInit /\ [][TeamNext]_vars

(***************************************************************************)
(* JiraClient.batch_get_issue_types (src/src/recap/tempo_api.py) on lists  *)
(* longer than one batch                                                   *)
(***************************************************************************)
\* Length of the longest list of issue keys: two full batches and one more key.
MaxKeys == 101

\* Issue keys are written by their numbers: n is "PROJ-n".  The lists passed
\* hold different keys (generate_report passes list(all_issue_keys), the
\* elements of a set), ascending or descending.
KeyLists ==
    {[j \in 1..n |-> j] : n \in 0..MaxKeys} \cup {[j \in 1..n |-> n + 1 - j] : n \in 0..MaxKeys}

\* How the Jira search answers: it knows every issue, every third one, or
\* none, and the requests of some batches raise.
BatchJiraAnswers ==
    {[types |-> [x \in found |-> IF x % 2 = 0 THEN "Task" ELSE "Bug"], failing |-> f] :
        found \in {1..(MaxKeys + 1), {x \in 1..(MaxKeys + 1) : x % 3 = 0}, {}},
        f \in SUBSET {1, 2, 3}}

BatchInit ==
    /\ NormIdle /\ AggIdle /\ ParseIdle /\ GitIdle /\ TeamIdle
    /\ batch_in \in [issue_keys : KeyLists, jira : BatchJiraAnswers]
    /\ batch_out = <<>>

\* batch_get_issue_types(issue_keys) is called and returns.
CallBatchGetIssueTypes ==
    /\ batch_out = <<>>
    /\ batch_out' = << [queried |-> Batches(batch_in.issue_keys, 1),
                        result |-> batch_get_issue_types(batch_in.issue_keys, batch_in.jira)] >>
    /\ UNCHANGED <<batch_in, nvars, avars, pvars, gvars, tvars>>

BatchNext == CallBatchGetIssueTypes

SpecBatch == BatchInit /\ [][BatchNext]_vars


(***************************************************************************)
(* Properties of normalize_daily_hours                                     *)
(***************************************************************************)
\* Positions of the entries of a date.
EntriesOn(date) == {j \in DOMAIN entries : entries[j].date = date}

\* Sum of the minutes the date's entries had when the call was made.
InputTotal(date) ==
    SumSeq([j \in DOMAIN input |-> IF input[j].date = date THEN input[j].minutes ELSE 0])

\* Sum of normalized_minutes over the date's entries (a missing key adds 0).
NormalizedTotal(date) ==
    SumSeq([j \in DOMAIN entries |->
              IF entries[j].date = date /\ entries[j].normalized_minutes # <<>>
              THEN entries[j].normalized_minutes[1] ELSE 0])

\* C1: after normalize_daily_hours, every date with at least one entry and a
\* non-zero sum of original minutes has normalized_minutes summing to exactly
\* the daily budget.
C1_SumEqualsBudget ==
    npc = "done" =>
        \A d \in NormDates :
            (EntriesOn(d) # {} /\ InputTotal(d) # 0) => NormalizedTotal(d) = daily_minutes

\* C2: every normalized_minutes value is a positive multiple of the rounding
\* increment and at least one increment.
C2_PositiveMultipleOfIncrement ==
    npc = "done" =>
        \A j \in DOMAIN entries :
            entries[j].normalized_minutes # <<>> =>
                /\ entries[j].normalized_minutes[1] % RoundToMinutes = 0
                /\ entries[j].normalized_minutes[1] >= RoundToMinutes

\* C3: normalization never alters the input minutes: once the first loop has
\* run, every entry carries original_minutes equal to its input minutes, and
\* the entry's own minutes (and kind and date) are what they were on input.
C3_OriginalPreserved ==
    npc \in {"normalize", "done"} =>
        /\ Len(entries) = Len(input)
        /\ \A j \in DOMAIN entries :
              /\ entries[j].original_minutes = <<input[j].minutes>>
              /\ entries[j].minutes = input[j].minutes
              /\ entries[j].kind = input[j].kind
              /\ entries[j].date = input[j].date

\* A finished call that changed the reported minutes of a project entry and
\* of a calendar entry.
C3_Witness ==
    /\ npc = "done"
    /\ \E j \in DOMAIN entries :
          /\ entries[j].kind = "entry"
          /\ entries[j].normalized_minutes # <<>>
          /\ entries[j].normalized_minutes[1] # input[j].minutes
    /\ \E j \in DOMAIN entries :
          /\ entries[j].kind = "event"
          /\ entries[j].normalized_minutes # <<>>
          /\ entries[j].normalized_minutes[1] # input[j].minutes

\* C4: a date with exactly one entry, of positive original minutes, receives
\* the entire daily budget.
C4_SingleEntryGetsBudget ==
    npc = "done" =>
        \A j \in DOMAIN entries :
            (EntriesOn(entries[j].date) = {j} /\ input[j].minutes > 0) =>
                entries[j].normalized_minutes = <<daily_minutes>>

\* A finished call with a lone positive entry on one date, whose minutes are
\* not the budget, and entries on another date.
C4_Witness ==
    /\ npc = "done"
    /\ \E j \in DOMAIN entries :
          /\ EntriesOn(entries[j].date) = {j}
          /\ input[j].minutes > 0
          /\ input[j].minutes # daily_minutes
          /\ entries[j].normalized_minutes = <<daily_minutes>>
          /\ \E i \in DOMAIN entries : entries[i].date # entries[j].date /\ input[i].minutes > 0

\* C5: a date whose original minutes sum to zero raises no error and leaves
\* its entries without normalized_minutes, while every other date of the same
\* call is normalized.
C5_ZeroTotalSkipped ==
    /\ npc # "error"
    /\ npc = "done" =>
          \A d \in NormDates : \A j \in EntriesOn(d) :
              IF InputTotal(d) = 0
              THEN entries[j].normalized_minutes = <<>>
              ELSE entries[j].normalized_minutes # <<>>

\* A finished call whose first date summed to zero and whose second date was
\* normalized.
C5_Witness ==
    /\ npc = "done"
    /\ Len(by_date) = 2
    /\ InputTotal(by_date[1].date) = 0
    /\ InputTotal(by_date[2].date) # 0
    /\ \A j \in EntriesOn(by_date[1].date) : entries[j].normalized_minutes = <<>>
    /\ \A j \in EntriesOn(by_date[2].date) : entries[j].normalized_minutes # <<>>

(***************************************************************************)
(* Properties of the aggregation                                           *)
(***************************************************************************)
\* The orders a list of n sessions can be given in.
Perms(n) == {f \in [1..n -> 1..n] : \A i, j \in 1..n : f[i] = f[j] => i = j}

Permuted(ss, f) == [j \in DOMAIN ss |-> ss[f[j]]]

\* The time figures of a result: per project its total and its (date, minutes)
\* pairs, and the totals in list order.
TimeFigures(r) ==
    [projects |-> {[project_name |-> r[a].project_name,
                    total_minutes |-> r[a].total_minutes,
                    days |-> {<<r[a].daily_entries[b].date, r[a].daily_entries[b].minutes>> :
                                 b \in DOMAIN r[a].daily_entries}] : a \in DOMAIN r},
     totals |-> [a \in DOMAIN r |-> r[a].total_minutes]]

\* C6 as stated: whatever the order of the session list, get_project_summaries
\* and dates_covered return the very same output (for some iteration order of
\* the todo sets, which the input order does not fix).
C6_OutputOrderIndependent ==
    /\ summaries # <<>> =>
          \A f \in Perms(Len(sessions)) :
              \E o \in TodoOrderings(sessions) :
                  GetProjectSummaries(Permuted(sessions, f), o) = summaries[1]
    /\ covered # <<>> =>
          \A f \in Perms(Len(sessions)) : DatesCovered(Permuted(sessions, f)) = covered[1]

\* C6 amended: whatever the order of the session list, get_project_summaries
\* returns the same projects with the same total_minutes and the same
\* (date, minutes) daily entries, the same sequence of totals, and
\* dates_covered is the same list.
C6_TimeFiguresOrderIndependent ==
    /\ summaries # <<>> =>
          \A o \in TodoOrderings(sessions) :
              \A f \in Perms(Len(sessions)) :
                  TimeFigures(GetProjectSummaries(Permuted(sessions, f), o))
                      = TimeFigures(summaries[1])
    /\ covered # <<>> =>
          \A f \in Perms(Len(sessions)) : DatesCovered(Permuted(sessions, f)) = covered[1]

\* Both results returned for a list in which one project has two sessions of
\* different durations on one date and another order of the list changes the
\* returned output.
C6_Witness ==
    /\ summaries # <<>> /\ covered # <<>>
    /\ \E i, j \in DOMAIN sessions :
          /\ i < j
          /\ sessions[i].project_name = sessions[j].project_name
          /\ sessions[i].date = sessions[j].date
          /\ sessions[i].duration_minutes # sessions[j].duration_minutes
    /\ \E f \in Perms(Len(sessions)) :
          \A o \in TodoOrderings(sessions) :
              GetProjectSummaries(Permuted(sessions, f), o) # summaries[1]

\* Positions of the sessions of a project on a date.
SessionsOf(name, date) ==
    {j \in DOMAIN sessions : sessions[j].project_name = name /\ sessions[j].date = date}

\* Sum of duration_minutes over the sessions at the given positions.
DurationOver(S) ==
    SumSeq([j \in DOMAIN sessions |-> IF j \in S THEN sessions[j].duration_minutes ELSE 0])

\* The (summary, entry) positions in a result that are for a project and a date.
EntriesFor(r, name, date) ==
    {ab \in UNION {{<<a, b>> : b \in DOMAIN r[a].daily_entries} : a \in DOMAIN r} :
        /\ r[ab[1]].project_name = name
        /\ r[ab[1]].daily_entries[ab[2]].date = date}

\* C7: for every project and date with a session there is exactly one
\* DailyProjectEntry, whose minutes are the sum of duration_minutes of exactly
\* the sessions of that project and date; a pair with no session has no entry.
C7_OneEntryPerProjectDate ==
    summaries # <<>> =>
        \A name \in ProjectNames : \A date \in AggDates :
            LET found == EntriesFor(summaries[1], name, date)
            IN IF SessionsOf(name, date) = {}
               THEN found = {}
               ELSE /\ Cardinality(found) = 1
                    /\ \A ab \in found :
                          summaries[1][ab[1]].daily_entries[ab[2]].minutes
                              = DurationOver(SessionsOf(name, date))

\* A result for a list where one (project, date) pair has two sessions, the
\* same date also has a session of the other project, and a pair has none.
C7_Witness ==
    /\ summaries # <<>>
    /\ \E name \in ProjectNames : \E date \in AggDates :
          /\ Cardinality(SessionsOf(name, date)) >= 2
          /\ \E other \in ProjectNames \ {name} : SessionsOf(other, date) # {}
    /\ \E name \in ProjectNames : \E date \in AggDates : SessionsOf(name, date) = {}

\* C8: every ProjectSummary's total_minutes is the sum of the minutes of its
\* daily_entries.
C8_TotalIsSumOfEntries ==
    summaries # <<>> =>
        \A a \in DOMAIN summaries[1] :
            summaries[1][a].total_minutes
                = SumSeq([b \in DOMAIN summaries[1][a].daily_entries |->
                             summaries[1][a].daily_entries[b].minutes])

\* A result holding a summary with two daily entries, one of them made of
\* two sessions.
C8_Witness ==
    /\ summaries # <<>>
    /\ \E a \in DOMAIN summaries[1] :
          /\ Len(summaries[1][a].daily_entries) = 2
          /\ \E date \in AggDates :
                Cardinality(SessionsOf(summaries[1][a].project_name, date)) = 2

\* C9: the returned list is ordered by total_minutes descending.
C9_SortedByTotalDescending ==
    summaries # <<>> =>
        \A a \in DOMAIN summaries[1] :
            a < Len(summaries[1]) =>
                summaries[1][a].total_minutes >= summaries[1][a + 1].total_minutes

\* A result of two projects where the project seen first in the list has the
\* smaller total and is returned second.
C9_Witness ==
    /\ summaries # <<>>
    /\ Len(summaries[1]) = 2
    /\ summaries[1][1].total_minutes > summaries[1][2].total_minutes
    /\ sessions[1].project_name = summaries[1][2].project_name

(***************************************************************************)
(* Properties of parse_date_range                                          *)
(***************************************************************************)
\* C10: every WorkSession of the worklog has a date within start..end, its
\* start_time and end_time both fall on that date, and every timestamp kept
\* for a date bucket (the only ones a span is taken over) lies on the
\* bucket's date, within the range.
C10_SessionsWithinRange ==
    /\ \A j \in DOMAIN parsed :
          /\ start_date <= parsed[j].date /\ parsed[j].date <= end_date
          /\ DateOf(parsed[j].start_time) = parsed[j].date
          /\ DateOf(parsed[j].end_time) = parsed[j].date
    /\ \A b \in DOMAIN file_by_date : \A i \in DOMAIN file_by_date[b].timestamps :
          /\ DateOf(file_by_date[b].timestamps[i]) = file_by_date[b].date_key
          /\ start_date <= file_by_date[b].date_key
          /\ file_by_date[b].date_key <= end_date

\* A returned worklog with a session, built from files in which a record
\* dated outside the range was read, the range being a single day.
C10_Witness ==
    /\ ppc = "done"
    /\ start_date = end_date
    /\ outside
    /\ parsed # <<>>

\* C11: every WorkSession of the worklog lasts at least MinDuration minutes,
\* and when a file ends, a date bucket of that file whose earliest and latest
\* timestamps are less than MinDuration minutes apart (a single-record bucket
\* spans zero seconds) adds no session for that file and date.
C11_MinimumDuration ==
    [][ /\ \A j \in DOMAIN parsed' : parsed'[j].duration_minutes >= MinDuration
        /\ (ppc = "lines" /\ ppc' = "files") =>
              \A b \in DOMAIN file_by_date :
                 SpanSeconds(file_by_date[b].timestamps) < MinDuration * 60 =>
                    ~\E j \in DOMAIN parsed' :
                         /\ parsed'[j].session_id = file.session_id
                         /\ parsed'[j].date = file_by_date[b].date_key ]_vars

\* A returned worklog that holds a session of exactly MinDuration minutes,
\* a bucket with a shorter span having been passed over in the last file.
C11_Witness ==
    /\ ppc = "done"
    /\ dropped
    /\ \E j \in DOMAIN parsed : parsed[j].duration_minutes = MinDuration

\* C12: while a file is read, the bucket of every day holds exactly the
\* timestamps of the in-range records read so far for that day, in file
\* order, whichever lines were skipped as corrupt or as lacking a timestamp
\* and wherever they stood.
C12_BadLinesSkipped ==
    ppc = "lines" =>
       /\ \A r \in valid_read :
             \E b \in DOMAIN file_by_date :
                /\ file_by_date[b].date_key = r.day
                /\ file_by_date[b].timestamps = r.timestamps
       /\ \A b \in DOMAIN file_by_date :
             \E r \in valid_read : r.day = file_by_date[b].date_key

\* Three lines of the first file have been read, none of them a record dated
\* outside the range, and two of them are in-range records of one day, both
\* in that day's bucket: the third line, wherever it stood, was skipped as
\* corrupt or as lacking a timestamp.
C12_Witness ==
    /\ ppc = "lines"
    /\ fileNo = 1
    /\ lineNo = 3
    /\ ~outside
    /\ valid_read # NoneRead
    /\ \A r \in valid_read : Len(r.timestamps) = 2

(***************************************************************************)
(* Properties of GitSessionParser.add_repo                                 *)
(***************************************************************************)
\* C13: after add_repo(path), if the path exists and holds .git the call has
\* returned True and repo_paths is what it was with the path appended;
\* if the path is missing or is a directory without .git the call has
\* returned False, has raised nothing, and repo_paths is what it was.
C13_AddRepo ==
    last_add # <<>> =>
       LET c == last_add[1]
       IN IF git_fs[c.path] = "repository"
          THEN c.returned = TRUE /\ ~c.raised /\ repo_paths = Append(c.before, c.path)
          ELSE c.returned = FALSE /\ ~c.raised /\ repo_paths = c.before

\* A parser that holds one repository has just been handed a directory
\* without .git, and (on another run) a path that does not exist.
C13_Witness ==
    /\ last_add # <<>>
    /\ repo_paths # <<>>
    /\ git_fs[last_add[1].path] = "directory"
    /\ last_add[1].returned = FALSE
    /\ \E p \in RepoPaths : git_fs[p] = "missing"

(***************************************************************************)
(* Properties of generate_report                                           *)
(***************************************************************************)
\* member_worklogs after the fetches of a whole roster, answered by as.
RECURSIVE FetchAll(_, _, _)
FetchAll(ms, as, mw) ==
    IF ms = <<>> THEN mw
    ELSE FetchAll(Tail(ms), Tail(as), SetWorklogs(mw, Head(ms).account_id, Head(as)))

\* The summaries, in roster order, of a call in which the fetches are
\* answered by as and the Jira search by jira, entered with the given cache.
SummariesOfCall(ms, as, jira, cache) ==
    LET keys == UNION {IssueKeysOf(as[j].worklogs) : j \in {i \in DOMAIN as : as[i].ok}}
        types == batch_get_issue_types(CHOOSE q \in Orderings(keys) : TRUE, jira)
    IN Summaries(ms, FetchAll(ms, as, EmptyDict), DictUpdate(cache, types))

\* The ways the fetches could have gone had none of them failed: those that
\* succeeded are as they were.
WithoutFailure(as) ==
    {alt \in [DOMAIN as -> {a \in FetchAnswers : a.ok}] :
        \A j \in DOMAIN as : as[j].ok => alt[j] = as[j]}

\* C14: a call that returns a report returns one summary per roster member;
\* the summary of a member whose fetch failed has no entry and 0 seconds,
\* and that of every other member is what the call would have built had no
\* fetch failed (whatever the failed fetches would have returned).
C14_FetchFailuresIsolated ==
    [][ (tpc = "fetch" /\ outcome' = "returned") =>
           /\ Len(report'[1].members) = Len(members)
           /\ Len(member_summaries') = Len(members)
           /\ \A j \in DOMAIN members :
                 /\ member_summaries'[j].member = members[j]
                 /\ ~fetched[j].ok =>
                       /\ member_summaries'[j].entries = <<>>
                       /\ member_summaries'[j].total_seconds = 0
                 /\ fetched[j].ok =>
                       \A alt \in WithoutFailure(fetched) :
                          member_summaries'[j] =
                             SummariesOfCall(members, alt, jira_answer'[1], issue_type_cache)[j]
      ]_vars

\* C14 for rosters whose members have different account ids.
C14_DistinctAccountIds ==
    [][ (tpc = "fetch" /\ outcome' = "returned"
            /\ \A i, j \in DOMAIN members : members[i].account_id = members[j].account_id => i = j) =>
           /\ Len(report'[1].members) = Len(members)
           /\ Len(member_summaries') = Len(members)
           /\ \A j \in DOMAIN members :
                 /\ member_summaries'[j].member = members[j]
                 /\ ~fetched[j].ok =>
                       /\ member_summaries'[j].entries = <<>>
                       /\ member_summaries'[j].total_seconds = 0
                 /\ fetched[j].ok =>
                       \A alt \in WithoutFailure(fetched) :
                          member_summaries'[j] =
                             SummariesOfCall(members, alt, jira_answer'[1], issue_type_cache)[j]
      ]_vars

\* C15: a call does not touch the team configuration before the roster is
\* resolved, and when the roster step ends the call, the call has raised,
\* there is no report, no member's worklogs have been fetched, and the
\* team's cached members and last_synced are what they were.
C15_RosterFailurePropagates ==
    [][ /\ (tpc = "ready" /\ tpc' = "roster") =>
              teams' = teams /\ fetched' = <<>> /\ report' = <<>>
        /\ (tpc = "roster" /\ tpc' = "ready") =>
              /\ outcome' = "roster_failed"
              /\ report' = <<>>
              /\ fetched' = <<>>
              /\ member_worklogs' = EmptyDict
              /\ teams' = teams
      ]_vars

\* The roster API has failed in a call on a team whose roster an earlier
\* call had cached.
C15_Witness ==
    /\ outcome = "roster_failed"
    /\ roster_source # "none"
    /\ teams[ConfiguredTeam].members # <<>>
    /\ teams[ConfiguredTeam].last_synced # <<>>
    /\ teams[ConfiguredTeam].last_synced[1] < calls

\* total_seconds, the sum over the entries and the sums of the three
\* breakdowns of a summary are one number.
TotalsAgree(m) ==
    /\ m.total_seconds = SumSeq([j \in DOMAIN m.entries |-> m.entries[j].time_spent_seconds])
    /\ SumValues(m.by_issue_type) = m.total_seconds
    /\ SumValues(m.by_date) = m.total_seconds
    /\ SumValues(m.by_issue) = m.total_seconds

\* C16: in every summary built by _process_member_worklogs, total_seconds is
\* the sum of the entries' time_spent_seconds, and the values of
\* by_issue_type, of by_date and of by_issue each sum to it.
C16_SummaryTotalsAgree ==
    /\ \A j \in DOMAIN member_summaries : TotalsAgree(member_summaries[j])
    /\ outcome = "returned" =>
          \A j \in DOMAIN report[1].members : TotalsAgree(report[1].members[j])

\* A summary built from worklogs without issue key, date and seconds, and
\* one in which an issue and a date each collect several worklogs.
C16_Witness ==
    /\ \E j \in DOMAIN member_summaries :
          /\ \E i \in DOMAIN member_summaries[j].entries :
                /\ member_summaries[j].entries[i].issue_key = "Unknown"
                /\ member_summaries[j].entries[i].date = ""
          /\ \E i \in DOMAIN member_summaries[j].entries :
                member_summaries[j].entries[i].time_spent_seconds = 0
          /\ member_summaries[j].total_seconds > 0
    /\ \E j \in DOMAIN member_summaries :
          /\ Len(member_summaries[j].entries) = 3
          /\ Cardinality(DOMAIN member_summaries[j].by_issue) = 2
          /\ Cardinality(DOMAIN member_summaries[j].by_date) = 2

\* sum(d.values()) of a dict of hours
RECURSIVE FracSumValues(_)
FracSumValues(d) ==
    IF DOMAIN d = {} THEN Frac(0, 1)
    ELSE LET x == CHOOSE y \in DOMAIN d : TRUE
         IN FracAdd(d[x], FracSumValues([y \in DOMAIN d \ {x} |-> d[y]]))

\* C17: in a report returned by generate_report, the values of
\* by_issue_type_total and those of by_date_total each sum to total_hours;
\* in seconds, the members' by_issue_type values and their by_date values
\* each sum to the sum of the members' total_seconds.
C17_BreakdownsSumToTotal ==
    outcome = "returned" =>
       LET r == report[1]
           seconds == SumSeq([j \in DOMAIN r.members |-> r.members[j].total_seconds])
       IN /\ FracSumValues(by_issue_type_total(r)) = total_hours(r)
          /\ FracSumValues(by_date_total(r)) = total_hours(r)
          /\ total_hours(r) = Frac(seconds, SecondsPerHour)
          /\ \A x \in DOMAIN by_issue_type_total(r) :
                by_issue_type_total(r)[x] =
                   Frac(SumSeq([j \in DOMAIN r.members |->
                                   IF x \in DOMAIN r.members[j].by_issue_type
                                   THEN r.members[j].by_issue_type[x] ELSE 0]), SecondsPerHour)
          /\ \A x \in DOMAIN by_date_total(r) :
                by_date_total(r)[x] =
                   Frac(SumSeq([j \in DOMAIN r.members |->
                                   IF x \in DOMAIN r.members[j].by_date
                                   THEN r.members[j].by_date[x] ELSE 0]), SecondsPerHour)
          /\ SumSeq([j \in DOMAIN r.members |-> SumValues(r.members[j].by_issue_type)]) = seconds
          /\ SumSeq([j \in DOMAIN r.members |-> SumValues(r.members[j].by_date)]) = seconds

\* A returned report in which two members have worked, on a common date and
\* under a common issue type, and which has several types and dates.
C17_Witness ==
    /\ outcome = "returned"
    /\ Len(report[1].members) = 2
    /\ \A j \in DOMAIN report[1].members : report[1].members[j].total_seconds > 0
    /\ \E x \in DOMAIN report[1].members[1].by_issue_type :
          x \in DOMAIN report[1].members[2].by_issue_type
    /\ \E x \in DOMAIN report[1].members[1].by_date :
          x \in DOMAIN report[1].members[2].by_date
    /\ Cardinality(DOMAIN by_issue_type_total(report[1])) >= 2
    /\ Cardinality(DOMAIN by_date_total(report[1])) >= 2

C19_MembersSortedStable ==
    outcome = "returned" =>
       LET ms == report[1].members
           n == Len(member_summaries)
       IN /\ Len(ms) = n
          /\ \A i \in 1..(n - 1) : ms[i].total_seconds >= ms[i + 1].total_seconds
          /\ \E f \in Perms(n) :
                /\ \A i \in 1..n : ms[i] = member_summaries[f[i]]
                /\ \A i, j \in 1..n :
                      (i < j /\ ms[i].total_seconds = ms[j].total_seconds) => f[i] < f[j]

\* A returned report of two members with equal, nonzero totals.
C19_Witness ==
    /\ outcome = "returned"
    /\ Len(report[1].members) = 2
    /\ report[1].members[1].total_seconds = report[1].members[2].total_seconds
    /\ report[1].members[1].total_seconds > 0
    /\ report[1].members[1] # report[1].members[2]

\* C20: the issue type of every entry of a returned report is the one that
\* this call's batch_get_issue_types gave for the entry's issue key, and
\* "Unknown" if it gave none.
C20_TypesFromThisCallOnly ==
    outcome = "returned" =>
       \A j \in DOMAIN member_summaries :
          \A i \in DOMAIN member_summaries[j].entries :
             LET e == member_summaries[j].entries[i]
             IN e.issue_type =
                   (IF e.issue_key \in DOMAIN issue_types THEN issue_types[e.issue_key]
                    ELSE "Unknown")

(***************************************************************************)
(* Properties of roster resolution and of the steps of generate_report     *)
(***************************************************************************)
\* The rosters each API can produce (the API's members, converted).
TempoRosters ==
    {[j \in DOMAIN v |-> MemberFromTempo(v[j])] : v \in ListsUpTo(ApiMembers, MaxMembers)}

JiraRosters ==
    {[j \in DOMAIN v |-> MemberFromJira(v[j])] : v \in ListsUpTo(ApiMembers, MaxMembers)}

\* C21: the roster step of generate_report asks the Tempo team when the team
\* has a Tempo team id, whether or not a Jira group is configured too; it
\* asks the Jira group only when there is no team id; with neither the call
\* fails and no roster API is asked.
C21_RosterSourceByIdentifier ==
    [][tpc = "roster" =>
        LET info == teams[team_name]
        IN /\ info.tempo_team_id # <<>> =>
                /\ roster_source' = "tempo"
                /\ tpc' = "fetch" => members' \in TempoRosters
           /\ (info.tempo_team_id = <<>> /\ info.jira_group # "") =>
                /\ roster_source' = "jira"
                /\ tpc' = "fetch" => members' \in JiraRosters
           /\ (info.tempo_team_id = <<>> /\ info.jira_group = "") =>
                /\ roster_source' = "none"
                /\ outcome' = "roster_failed"
                /\ tpc' = "ready"
                /\ fetched' = <<>>]_vars

\* A team with both identifiers whose roster came from the Tempo team: the
\* member known to Jira as "acc-alice" carries her Tempo key.
C21_Witness ==
    /\ tpc = "fetch"
    /\ teams[team_name].tempo_team_id # <<>>
    /\ teams[team_name].jira_group # ""
    /\ roster_source = "tempo"
    /\ \E j \in DOMAIN members :
          members[j].account_id = "alice" /\ members[j].display_name = "Alice"

\* C22: a supplied progress callback is called once per roster member, in
\* roster order, with (display name, index, total), index running from 1 to
\* the roster size, and the call for a member is made after that member's
\* worklog fetch has been processed.
C22_ProgressAfterEachFetch ==
    (callback /\ outcome = "returned") =>
        /\ Len(progress) = Len(members)
        /\ \A j \in DOMAIN progress :
              /\ progress[j].name = members[j].display_name
              /\ progress[j].index = j
              /\ progress[j].total = Len(members)
              /\ progress[j].fetches_done >= j

\* What does hold: once per member, in roster order, with (name, index,
\* total), each call made before the fetch of the member it names.
C22_ProgressBeforeEachFetch ==
    /\ ~callback => progress = <<>>
    /\ (callback /\ tpc = "fetch") => Len(progress) = Len(fetched)
    /\ (callback /\ outcome = "returned") => Len(progress) = Len(members)
    /\ \A j \in DOMAIN progress :
          /\ progress[j].name = members[j].display_name
          /\ progress[j].index = j
          /\ progress[j].total = Len(members)
          /\ progress[j].fetches_done = j - 1

\* C24: once generate_report has resolved the roster of a configured team, the
\* team configuration holds that roster as the team's members, with the time
\* of this call as last_synced.  It is written after the roster is resolved
\* (not while the roster step is pending) and is in place before the first
\* fetch and through every later step.
C24_RosterCachedBeforeFetch ==
    /\ (tpc = "fetch" \/ outcome = "returned") =>
          /\ teams[team_name].members = members
          /\ teams[team_name].last_synced = <<calls>>
    /\ tpc = "roster" => teams[team_name].last_synced # <<calls>>

\* A second call, its roster of two just resolved and nothing fetched yet.
C24_Witness ==
    /\ tpc = "fetch"
    /\ calls = 2
    /\ fetched = <<>>
    /\ Len(members) = 2
    /\ teams[team_name].members = members
    /\ teams[team_name].last_synced = <<2>>

\* What the fetch for roster position j returned to the call: nothing if it
\* failed.
OwnWorklogs(j) == IF fetched[j].ok THEN fetched[j].worklogs ELSE <<>>

\* C29: in a returned report every member's summary is built from the
\* worklogs of that member's own fetch (from none if it failed) and from no
\* other member's, also when two roster members have the same account id.
C29_OwnWorklogsOnly ==
    [][ (tpc = "fetch" /\ outcome' = "returned") =>
           \A j \in DOMAIN members :
              member_summaries'[j] =
                 process_member_worklogs(members[j], OwnWorklogs(j), issue_type_cache')
      ]_vars

\* C29 for rosters whose members have different account ids.
C29_DistinctAccountIds ==
    [][ (tpc = "fetch" /\ outcome' = "returned"
            /\ \A i, j \in DOMAIN members : members[i].account_id = members[j].account_id => i = j) =>
           \A j \in DOMAIN members :
              member_summaries'[j] =
                 process_member_worklogs(members[j], OwnWorklogs(j), issue_type_cache')
      ]_vars

(***************************************************************************)
(* Properties of batch_get_issue_types                                     *)
(***************************************************************************)
\* C23: the keys are queried in consecutive batches of at most 50, every key
\* in exactly one batch, ceil(n / 50) batches in all; every key of a batch
\* whose query failed is mapped to "Unknown", and every key of another batch
\* has the type Jira gave for it (and no entry if Jira gave none).
C23_BatchesOfFifty ==
    batch_out # <<>> =>
        LET keys == batch_in.issue_keys
            jira == batch_in.jira
            q == batch_out[1].queried
            result == batch_out[1].result
        IN /\ Len(q) = (Len(keys) + 49) \div 50
           /\ \A b \in DOMAIN q : Len(q[b]) >= 1 /\ Len(q[b]) <= 50
           /\ Flatten(q) = keys
           /\ DOMAIN result \subseteq Range(keys)
           /\ \A b \in DOMAIN q : \A x \in Range(q[b]) :
                 IF b \in jira.failing
                 THEN x \in DOMAIN result /\ result[x] = "Unknown"
                 ELSE IF x \in DOMAIN jira.types
                      THEN x \in DOMAIN result /\ result[x] = jira.types[x]
                      ELSE x \notin DOMAIN result

\* 101 keys in three batches; the second batch's query failed, the others
\* were answered.
C23_Witness ==
    /\ batch_out # <<>>
    /\ Len(batch_in.issue_keys) = 101
    /\ Len(batch_out[1].queried) = 3
    /\ batch_in.jira.failing = {2}
    /\ {50, 51, 100, 101} \subseteq DOMAIN batch_out[1].result
    /\ batch_out[1].result[50] = "Task"
    /\ batch_out[1].result[51] = "Unknown"
    /\ batch_out[1].result[100] = "Unknown"
    /\ batch_out[1].result[101] = "Bug"

(***************************************************************************)
(* Further properties of ClaudeSessionParser                               *)
(***************************************************************************)
\* The sessions a step has added to the worklog.
Added == SubSeq(parsed', Len(parsed) + 1, Len(parsed'))

\* C27: the sessions one file adds are at most one per calendar date; a
\* session starts at an earliest and ends at a latest of the timestamps of
\* the file's in-range records on its date, and its duration_minutes is the
\* whole minutes between the two, rounded down.
C27_OneSessionPerDate ==
    [][ (ppc = "lines" /\ ppc' = "files") =>
           /\ \A i, j \in DOMAIN Added : Added[i].date = Added[j].date => i = j
           /\ \A i \in DOMAIN Added :
                 LET tss == ReadOn(valid_read, Added[i].date)
                     seconds == Added[i].end_time.inst - Added[i].start_time.inst
                 IN /\ Added[i].session_id = file.session_id
                    /\ Added[i].start_time \in Range(tss)
                    /\ Added[i].end_time \in Range(tss)
                    /\ \A t \in Range(tss) :
                          Added[i].start_time.inst <= t.inst /\ t.inst <= Added[i].end_time.inst
                    /\ Added[i].duration_minutes * 60 <= seconds
                    /\ seconds < (Added[i].duration_minutes + 1) * 60
      ]_vars

\* The first file has given one session, of 10 minutes for a span of 10
\* minutes 30 seconds.
C27_Witness ==
    /\ ppc = "files"
    /\ fileNo = 1
    /\ Len(parsed) = 1
    /\ parsed[1].duration_minutes = 10
    /\ parsed[1].end_time.inst - parsed[1].start_time.inst = 630

\* C28: a failure while one session file is parsed never ends
\* parse_date_range with an error, and it costs no session of another file:
\* the sessions collected from the files before stay in the worklog.
C28_FileFailuresContained ==
    [][ /\ ppc' # "raised"
        /\ (ppc = "lines" /\ ppc' = "files") => SubSeq(parsed', 1, Len(parsed)) = parsed
      ]_vars

\* What does hold: an error raised while the file is read (inside the try)
\* gives no session for that file, keeps those of the files before, and the
\* call goes on to the next file; parse_date_range is left with an error only
\* when timestamps are compared.
C28_ReadErrorsContained ==
    [][ /\ (ppc = "lines" /\ ppc' = "files") => SubSeq(parsed', 1, Len(parsed)) = parsed
        /\ (ppc = "lines" /\ ppc' = "raised") =>
              \E b \in DOMAIN file_by_date : ~Comparable(file_by_date[b].timestamps)
        /\ (ppc = "files" /\ ppc' = "raised") =>
              ~Comparable([j \in DOMAIN parsed |-> parsed[j].start_time])
      ]_vars

(***************************************************************************)
(* Further properties of normalize_daily_hours                             *)
(***************************************************************************)
\* The proportional share original / total * budget rounded to the nearest
\* multiple of the increment (half up), and at least one increment.
RoundedShare(original, total, dm) ==
    LET units == (2 * original * dm + RoundToMinutes * total) \div (2 * RoundToMinutes * total)
    IN IF units = 0 THEN RoundToMinutes ELSE units * RoundToMinutes

\* The entry of a date's list idx that takes the remainder: the first, in
\* input order, of those whose rounded share is largest.
TakesRemainder(es, idx, total, dm) ==
    CHOOSE a \in DOMAIN idx :
        \A b \in DOMAIN idx :
            LET ra == RoundedShare(es[idx[a]].original_minutes[1], total, dm)
                rb == RoundedShare(es[idx[b]].original_minutes[1], total, dm)
            IN ra > rb \/ (ra = rb /\ a <= b)

\* C25: on a date whose minutes are not all zero, every entry but one has
\* its rounded share as normalized_minutes, and the entry with the largest
\* rounded share (the first such in input order) has its rounded share plus
\* the whole remainder: the budget less the sum of the rounded shares.
C25_RemainderToLargest ==
    npc = "done" =>
        \A d \in DOMAIN by_date :
            LET idx == by_date[d].idx
                total == SumSeq([j \in DOMAIN idx |-> input[idx[j]].minutes])
                rounded == [j \in DOMAIN idx |->
                               RoundedShare(entries[idx[j]].original_minutes[1], total, daily_minutes)]
            IN total # 0 =>
                 \A j \in DOMAIN idx :
                    entries[idx[j]].normalized_minutes =
                       << IF j = TakesRemainder(entries, idx, total, daily_minutes)
                          THEN rounded[j] + (daily_minutes - SumSeq(rounded))
                          ELSE rounded[j] >>

\* The positions of the entries of date d in a list, in list order.
PositionsOn(es, d) ==
    LET upto[n \in 0..Len(es)] ==
            IF n = 0 THEN <<>>
            ELSE IF es[n].date = d THEN Append(upto[n - 1], n) ELSE upto[n - 1]
    IN upto[Len(es)]

\* C26: the normalized_minutes the entries of a date get from a call on the
\* whole list are those they get from a call on that date's entries alone;
\* so the entries of other dates, whatever they are, do not change them.
C26_DatesIndependent ==
    npc = "done" =>
        \A d \in NormDates :
            LET at == PositionsOn(input, d)
                alone == normalize_daily_hours([j \in DOMAIN at |-> input[at[j]]], daily_minutes)
            IN \A j \in DOMAIN at :
                  entries[at[j]].normalized_minutes = alone[j].normalized_minutes

\* Three entries on two dates: the two of the first date share the budget,
\* the one of the other date has all of it.
C26_Witness ==
    /\ npc = "done"
    /\ Len(entries) = 3
    /\ entries[1].date = entries[3].date
    /\ entries[2].date # entries[1].date
    /\ entries[1].normalized_minutes = <<daily_minutes \div 2>>
    /\ entries[3].normalized_minutes = <<daily_minutes \div 2>>
    /\ entries[2].normalized_minutes = <<daily_minutes>>

(***************************************************************************)
(* Further properties of WeeklyWorklog                                     *)
(***************************************************************************)
\* C30: the total_minutes of the ProjectSummary objects get_project_summaries
\* returns add up to the worklog's total_minutes, the sum of the
\* duration_minutes of all sessions: the grouping by project loses no session
\* and counts none twice.
C30_AggregationConservesTime ==
    summaries # <<>> =>
        /\ SumSeq([a \in DOMAIN summaries[1] |-> summaries[1][a].total_minutes])
              = WorklogTotalMinutes(sessions)
        /\ WorklogTotalMinutes(sessions)
              = SumSeq([j \in DOMAIN sessions |-> sessions[j].duration_minutes])

\* Three sessions of two projects, the first and the last of the same
\* project: 60 + 90 + 60 minutes in two summaries.
C30_Witness ==
    /\ summaries # <<>>
    /\ Len(sessions) = 3
    /\ sessions[1].project_name = sessions[3].project_name
    /\ sessions[2].project_name # sessions[1].project_name
    /\ Len(summaries[1]) = 2
    /\ WorklogTotalMinutes(sessions) = 210
    /\ summaries[1][1].total_minutes = 120
    /\ summaries[1][2].total_minutes = 90
====
